---- MODULE Spec2Model ----
(***************************************************************************)
(* State-machine model of oura_sync: the OAuth2 token lifecycle           *)
(* (services/oauth.py, models/auth.py), the retrying API client           *)
(* (services/oura_client.py) and the authentication script                *)
(* (scripts/authenticate.py).                                             *)
(*                                                                         *)
(* The oauth_tokens table is the variable store, a function from the      *)
(* user_ids that have a row to that row.  A db.query(...).first() reads   *)
(* the committed row for the user_id, and the commit that ends a          *)
(* `with get_db()` block publishes the block's writes at once.  Each      *)
(* process runs one call at a time: proc[p].pc is its position in the     *)
(* code and proc[p].stack the positions its callers resume at.            *)
(***************************************************************************)
EXTENDS Integers, Sequences, FiniteSets, TLC

\* ------------------------------------------------------------------ bounds
MaxTime == 2        \* Tick advances the clock only below this bound
MaxGrants == 3      \* token grants the provider issues in one run
MaxOps == 2         \* top-level calls started by one process
MaxPages == 2       \* pages the API serves to one paginated fetch

\* ------------------------------------------------------- program constants
DefaultExpiresIn == 86400   \* token_data.get("expires_in", 86400)
DefaultMaxRetries == 3      \* max_retries: int = 3
DefaultRetryAfter == 60     \* response.headers.get("Retry-After", 60)

\* ------------------------------------------------------------------ values
Procs == {1, 2}
Accounts == {"temp", "u1"}

\* methods_map: the data types that have a fetch method.
methods_map == {"daily_activity", "daily_sleep"}

\* The daily tables before the first sync: no rows.
NoRecords == [data_type \in methods_map |-> <<>>]
States == {"s1", "s2"}               \* anti-CSRF state values
Codes == {"", "good", "bad"}         \* what the user types as authorization code

\* Optional values (a Python None, an absent dict key, a NULL column).
None == <<>>
Some(x) == <<x>>
Get(opt, default) == IF opt = None THEN default ELSE opt[1]

AT(k) == <<"at", k>>                 \* access token of grant k
RT(k) == <<"rt", k>>                 \* refresh token of grant k

\* The token endpoint's JSON for grant k; expires_in may be omitted.
TokenResponse(k, e) ==
  [access_token |-> AT(k), refresh_token |-> Some(RT(k)), expires_in |-> e,
   token_type |-> Some("Bearer"), scope |-> Some("daily")]

\* What the provider may send as expires_in: nothing, or one second.
ExpiresInChoices == {None, Some(1)}

\* ---------------------------------------------------------- pure functions
is_expired_strict(token, t) ==
  IF token.expires_at = None THEN FALSE ELSE t > token.expires_at[1]

is_expired_flipped(token, t) ==
  IF token.expires_at = None THEN FALSE ELSE t <= token.expires_at[1]

is_expired_null(token, t) ==
  IF token.expires_at = None THEN TRUE ELSE t >= token.expires_at[1]

\* OAuthToken.is_expired at clock value t.
is_expired(token, t) ==
  IF token.expires_at = None THEN FALSE ELSE t >= token.expires_at[1]

\* id: primary key, autoincrement: the next id of the table.
NextId(st) ==
  IF st = <<>> THEN 1
  ELSE 1 + (CHOOSE m \in {st[u].id : u \in DOMAIN st} :
              \A u \in DOMAIN st : st[u].id <= m)

save_token_keep_refresh(st, user_id, token_data, t) ==
  LET expires_at == t + Get(token_data.expires_in, DefaultExpiresIn)
  IN IF user_id \in DOMAIN st
       THEN [st EXCEPT ![user_id] =
               [@ EXCEPT !.access_token = token_data.access_token,
                         !.token_type = Get(token_data.token_type, "Bearer"),
                         !.expires_at = Some(expires_at),
                         !.scopes = Get(token_data.scope, "")]]
       ELSE st @@ (user_id :>
               [id |-> NextId(st),
                access_token |-> token_data.access_token,
                refresh_token |-> token_data.refresh_token[1],
                token_type |-> Get(token_data.token_type, "Bearer"),
                expires_at |-> Some(expires_at),
                scopes |-> Get(token_data.scope, "")])

save_token_keep_expiry(st, user_id, token_data, t) ==
  LET expires_at == t + Get(token_data.expires_in, DefaultExpiresIn)
  IN IF user_id \in DOMAIN st
       THEN [st EXCEPT ![user_id] =
               [@ EXCEPT !.access_token = token_data.access_token,
                         !.refresh_token = Get(token_data.refresh_token, @),
                         !.token_type = Get(token_data.token_type, "Bearer"),
                         !.scopes = Get(token_data.scope, "")]]
       ELSE st @@ (user_id :>
               [id |-> NextId(st),
                access_token |-> token_data.access_token,
                refresh_token |-> token_data.refresh_token[1],
                token_type |-> Get(token_data.token_type, "Bearer"),
                expires_at |-> Some(expires_at),
                scopes |-> Get(token_data.scope, "")])

save_token_reinsert(st, user_id, token_data, t) ==
  LET expires_at == t + Get(token_data.expires_in, DefaultExpiresIn)
      row == [id |-> NextId(st),
              access_token |-> token_data.access_token,
              refresh_token |-> IF user_id \in DOMAIN st
                                  THEN Get(token_data.refresh_token,
                                           st[user_id].refresh_token)
                                  ELSE token_data.refresh_token[1],
              token_type |-> Get(token_data.token_type, "Bearer"),
              expires_at |-> Some(expires_at),
              scopes |-> Get(token_data.scope, "")]
  IN [u \in DOMAIN st \cup {user_id} |-> IF u = user_id THEN row ELSE st[u]]

\* OuraOAuth.save_token: the table after the upsert committed at clock value t.
save_token(st, user_id, token_data, t) ==
  LET expires_at == t + Get(token_data.expires_in, DefaultExpiresIn)
  IN IF user_id \in DOMAIN st
       THEN [st EXCEPT ![user_id] =
               [@ EXCEPT !.access_token = token_data.access_token,
                         !.refresh_token = Get(token_data.refresh_token, @),
                         !.token_type = Get(token_data.token_type, "Bearer"),
                         !.expires_at = Some(expires_at),
                         !.scopes = Get(token_data.scope, "")]]
       ELSE st @@ (user_id :>
               [id |-> NextId(st),
                access_token |-> token_data.access_token,
                refresh_token |-> token_data.refresh_token[1],
                token_type |-> Get(token_data.token_type, "Bearer"),
                expires_at |-> Some(expires_at),
                scopes |-> Get(token_data.scope, "")])

query_first_any(st, user_id) ==
  IF st = <<>> THEN None ELSE Some(st[CHOOSE u \in DOMAIN st : TRUE])

\* db.query(OAuthToken).filter(user_id == ...).first()
query_first(st, user_id) ==
  IF user_id \in DOMAIN st THEN Some(st[user_id]) ELSE None

\* ------------------------------------------------------------------- state
VARIABLES
  store,      \* oauth_tokens: committed rows, keyed by user_id
  now,        \* the UTC clock, in seconds
  issued,     \* provider: number of grants issued so far
  validRT,    \* provider: refresh tokens it still accepts (single use)
  submitted,  \* history: refresh tokens ever sent in a refresh request
  saved,      \* history: per account, the last token_data saved and when
  procs,      \* the processes that run
  proc,       \* per process: position, call stack, locals and the call's log
  env,        \* the deployment: the database's datetimes, the local timezone
  records     \* the daily tables: per data type, the committed rows by id

vars == <<store, now, issued, validRT, submitted, saved, procs, proc, env, records>>

\* The default deployment: PostgreSQL (config/settings.py), whose
\* DateTime(timezone=True) column returns timezone-aware datetimes.
UtcAware ==
  [naive_db |-> FALSE, utcoffset |-> 0, db_faulty |-> FALSE, orm_session |-> FALSE]

\* A process between calls.  The log fields describe the last top-level call.
IdleProc ==
  [pc |-> "idle", stack |-> <<>>, op |-> "none", ops |-> 0,
   uid |-> "temp", ret |-> None, exc |-> "none",
   token |-> None, new_token_data |-> None,
   headers |-> None, attempt |-> 0, max_retries |-> 0,
   endpoint |-> "none", next_token |-> None, all_data |-> <<>>,
   args |-> [start_date |-> None, end_date |-> None, extra |-> None],
   params |-> [start_date |-> None, end_date |-> None, extra |-> None],
   auth_code |-> "", state |-> "", echoed |-> "", token_data |-> None,
   excStatus |-> 0, expiries |-> 0, chkNow |-> 0, chkRec |-> None, chkSaved |-> None,
   refreshCalls |-> 0, refreshOk |-> 0, saveCalls |-> 0, tokenCalls |-> 0,
   calls |-> 0, getLog |-> <<>>, sleepLog |-> <<>>, peakSessions |-> 0,
   dbErrors |-> 0, rejected |-> 0, provider_error |-> "", exc_message |-> <<>>,
   data_types |-> <<>>, dt_index |-> 1, attempted |-> <<>>, outcomes |-> <<>>,
   persisted |-> <<>>]

Init ==
  /\ store = <<>>
  /\ now = 0
  /\ issued = 0
  /\ validRT = {}
  /\ submitted = {}
  /\ saved = [a \in Accounts |-> None]
  /\ procs = {1}
  /\ proc = [p \in Procs |-> IdleProc]
  /\ env = UtcAware
  /\ records = NoRecords

\* ------------------------------------------------------ calls and returns
Put(p, r) == proc' = [proc EXCEPT ![p] = r]

\* A top-level call starts: the locals and the log of the previous call go.
Begin(me, op, uid) == [IdleProc EXCEPT !.ops = me.ops + 1, !.op = op, !.uid = uid]

\* `return v`: resume the caller, or finish the top-level call.
Return(me, v) ==
  IF me.stack = <<>>
    THEN [me EXCEPT !.pc = "idle", !.ret = v]
    ELSE [me EXCEPT !.pc = Head(me.stack), !.stack = Tail(me.stack), !.ret = v]

\* sync_daily_data between two data types: the locals and the log of the
\* fetch of the previous data type go.
NextDataType(me, outcomes) ==
  [IdleProc EXCEPT !.ops = me.ops, !.op = me.op, !.uid = me.uid,
                   !.pc = "sync_loop", !.data_types = me.data_types,
                   !.dt_index = me.dt_index + 1, !.attempted = me.attempted,
                   !.outcomes = outcomes, !.persisted = me.persisted]

sync_except_abort(me, e) ==
  [me EXCEPT !.pc = "idle", !.stack = <<>>, !.exc = e, !.ret = None]

\* sync_daily_data: except Exception as e: log, and on to the next data type.
sync_except(me, e) == NextDataType(me, Append(me.outcomes, "failed"))

Raise_partial(me, e) ==
  [me EXCEPT !.pc = "idle", !.stack = <<>>, !.exc = e,
             !.ret = Some(me.all_data)]

\* An exception: the try block of sync_daily_data catches it; in the other
\* calls no frame handles it and the top-level call ends with it.
Raise(me, e) ==
  IF me.op = "sync_daily_data"
    THEN sync_except(me, e)
    ELSE [me EXCEPT !.pc = "idle", !.stack = <<>>, !.exc = e, !.ret = None]

\* Call get_token(user_id), resuming at `resume`.
CallGetToken(me, resume) ==
  [me EXCEPT !.pc = "gt_query", !.stack = <<resume>> \o me.stack]

\* History of a save_token(user_id, token_data) call made now.
Saved(user_id, token_data) ==
  saved' = [saved EXCEPT ![user_id] = Some([token_data |-> token_data, at |-> now])]

CanStart(p) == p \in procs /\ proc[p].pc = "idle" /\ proc[p].ops < MaxOps

\* -------------------------------------------------------------- the clock
\* Time passes between calls; within a call it passes in the call's sleeps.
Tick ==
  /\ \A p \in procs : proc[p].pc = "idle"
  /\ now < MaxTime
  /\ now' = now + 1
  /\ UNCHANGED <<store, saved, issued, validRT, submitted, procs, proc, env, records>>

\* ------------------------------------------------------------ get_db
\* How a `with get_db() as db` block that writes can end: db.commit()
\* publishes its writes, or a persistence error (sqlalchemy.exc.SQLAlchemyError)
\* is raised inside it: db.rollback(), re-raise, db.close().
get_db_outcomes == IF env.db_faulty THEN {"commit", "rollback"} ELSE {"commit"}

\* The exception get_db re-raises after the rollback, with no handler above.
get_db_reraise(me) == Raise([me EXCEPT !.dbErrors = @ + 1], "SQLAlchemyError")

\* ------------------------------------------------------ the OAuth provider
\* OuraOAuth.refresh_access_token: the outcomes the token endpoint can give
\* for refresh token rt.  It is single use: a success retires rt and issues
\* the next grant; any failure surfaces as the wrapped Exception.
refresh_access_token(rt) ==
  {[ok |-> FALSE, token |-> None]} \cup
  (IF rt \in validRT /\ issued < MaxGrants
     THEN {[ok |-> TRUE, token |-> Some(TokenResponse(issued + 1, e))] :
             e \in ExpiresInChoices}
     ELSE {})

\* Log of a refresh that failed: was rt a token the provider had retired?
Rejected(me, rt) ==
  [me EXCEPT !.rejected = IF rt \in validRT THEN @ ELSE @ + 1]

ProviderRefreshed(rt, o) ==
  /\ submitted' = submitted \cup {rt}
  /\ issued' = IF o.ok THEN issued + 1 ELSE issued
  /\ validRT' = IF o.ok THEN (validRT \ {rt}) \cup {RT(issued + 1)} ELSE validRT

\* ------------------------------------------------- OAuthToken.is_expired
\* self.expires_at.tzinfo of a loaded row: None when the database returns
\* naive datetimes (the UTC wall-clock value that save_token wrote).
expires_at_tzinfo == IF env.naive_db THEN None ELSE Some("UTC")

\* datetime.now(tz): with a timezone, the instant; with None, the naive local
\* wall-clock time of the process.  Datetimes are seconds of wall-clock time.
datetime_now(tz) == IF tz = None THEN now + env.utcoffset ELSE now

\* ------------------------------------------------- OuraOAuth.get_token
\* except Exception: log and `return None` (inside the with block).
get_token_on_error_raise(me) == Raise(me, "RefreshError")

get_token_on_error(me) == Return(me, None)

\* with get_db() as db: token = query.first(); if token and token.is_expired()
GetToken_Query(p) ==
  LET me == proc[p]
      token == query_first(store, me.uid)
      expired == token # None /\ is_expired(token[1], datetime_now(expires_at_tzinfo))
      seen == [me EXCEPT !.token = token, !.expiries = IF expired THEN @ + 1 ELSE @,
                         !.chkNow = now, !.chkRec = token,
                         !.chkSaved = saved[me.uid],
                         !.peakSessions = IF @ < 1 THEN 1 ELSE @]
  IN /\ p \in procs
     /\ me.pc = "gt_query"
     /\ Put(p, IF expired THEN [seen EXCEPT !.pc = "gt_refresh"]
                          ELSE Return(seen, token))
     /\ UNCHANGED <<store, saved, now, issued, validRT, submitted, procs, env, records>>

GetToken_Refresh_delete(p) ==
  LET me == proc[p]
      rt == me.token[1].refresh_token
  IN /\ p \in procs
     /\ me.pc = "gt_refresh"
     /\ \E o \in refresh_access_token(rt) :
          /\ ProviderRefreshed(rt, o)
          /\ store' = IF o.ok THEN store
                      ELSE [u \in DOMAIN store \ {me.uid} |-> store[u]]
          /\ Put(p, IF o.ok
                      THEN [me EXCEPT !.pc = "gt_save", !.new_token_data = o.token,
                                      !.refreshCalls = @ + 1, !.refreshOk = @ + 1]
                      ELSE get_token_on_error(Rejected([me EXCEPT !.refreshCalls = @ + 1], rt)))
     /\ UNCHANGED <<saved, now, procs, env, records>>

\* new_token_data = self.refresh_access_token(token.refresh_token)
GetToken_Refresh(p) ==
  LET me == proc[p]
      rt == me.token[1].refresh_token
  IN /\ p \in procs
     /\ me.pc = "gt_refresh"
     /\ \E o \in refresh_access_token(rt) :
          /\ ProviderRefreshed(rt, o)
          /\ Put(p, IF o.ok
                      THEN [me EXCEPT !.pc = "gt_save", !.new_token_data = o.token,
                                      !.refreshCalls = @ + 1, !.refreshOk = @ + 1]
                      ELSE get_token_on_error(Rejected([me EXCEPT !.refreshCalls = @ + 1], rt)))
     /\ UNCHANGED <<store, saved, now, procs, env, records>>

GetToken_Save_dropped(p) ==
  LET me == proc[p]
  IN /\ p \in procs
     /\ me.pc = "gt_save"
     /\ Put(p, [me EXCEPT !.pc = "gt_requery", !.saveCalls = @ + 1])
     /\ UNCHANGED <<store, saved, now, issued, validRT, submitted, procs, env, records>>

\* self.save_token(user_id, new_token_data): a second session, inside the first
GetToken_Save(p) ==
  LET me == proc[p]
  IN /\ p \in procs
     /\ me.pc = "gt_save"
     /\ \E c \in get_db_outcomes :
          IF c = "commit"
            THEN /\ store' = save_token(store, me.uid, me.new_token_data[1], now)
                 /\ Saved(me.uid, me.new_token_data[1])
                 /\ Put(p, [me EXCEPT !.pc = "gt_requery", !.saveCalls = @ + 1,
                                      !.peakSessions = IF @ < 2 THEN 2 ELSE @])
            ELSE \* the error reaches get_token's `except Exception`
                 /\ UNCHANGED <<store, saved>>
                 /\ Put(p, get_token_on_error(
                              [me EXCEPT !.dbErrors = @ + 1,
                                         !.peakSessions = IF @ < 2 THEN 2 ELSE @]))
     /\ UNCHANGED <<now, issued, validRT, submitted, procs, env, records>>

\* What the second db.query(...).first() of get_token gives, on the session
\* that loaded the row before the refresh: the row as save_token's session
\* committed it; and, where the ORM session is modelled, the instance that
\* session already holds, with the attributes it loaded.
requery_outcomes(me) ==
  {query_first(store, me.uid)} \cup (IF env.orm_session THEN {me.token} ELSE {})

\* token = query.first() again; return token
GetToken_Requery(p) ==
  LET me == proc[p]
  IN /\ p \in procs
     /\ me.pc = "gt_requery"
     /\ \E token \in requery_outcomes(me) :
          Put(p, Return([me EXCEPT !.token = token], token))
     /\ UNCHANGED <<store, saved, now, issued, validRT, submitted, procs, env, records>>

\* ------------------------------------------- OuraOAuth.get_access_token
\* return token.access_token if token else None
access_token_of_refresh(token) ==
  IF token = None THEN None ELSE Some(token[1].refresh_token)

access_token_of(token) ==
  IF token = None THEN None ELSE Some(token[1].access_token)

\* A caller asks for the account's access token.
GetAccessToken_Call(p) ==
  /\ CanStart(p)
  /\ \E uid \in Accounts :
       Put(p, CallGetToken(Begin(proc[p], "get_access_token", uid), "gat_ret"))
  /\ UNCHANGED <<store, saved, now, issued, validRT, submitted, procs, env, records>>

\* Reading token.access_token after get_token's `with get_db()` block has
\* committed and closed the session that loaded token: the loaded value; and,
\* where the ORM session is modelled, the error of an instance that the
\* commit expired and the close detached.
attribute_outcomes(me) ==
  {Return(me, access_token_of(me.ret))} \cup
  (IF env.orm_session /\ me.ret # None
     THEN {Raise(me, "DetachedInstanceError")} ELSE {})

GetAccessToken_Ret(p) ==
  LET me == proc[p]
  IN /\ p \in procs
     /\ me.pc = "gat_ret"
     /\ \E after \in attribute_outcomes(me) : Put(p, after)
     /\ UNCHANGED <<store, saved, now, issued, validRT, submitted, procs, env, records>>

\* ------------------------------------------------ OuraClient._make_request
\* Call _make_request(endpoint, params, max_retries): it starts with
\* _get_headers, which calls get_access_token, which calls get_token.
CallMakeRequest(me, endpoint, next_token, max_retries, resume) ==
  [me EXCEPT !.endpoint = endpoint, !.next_token = next_token,
             !.max_retries = max_retries, !.calls = @ + 1,
             !.pc = "gt_query",
             !.stack = <<"gat_ret", "hdr_ret">> \o resume \o me.stack]

\* int(...) of a Retry-After header value: a number of seconds, or a
\* ValueError for a value that is no integer literal (the HTTP-date form).
IsIntLiteral(h) == h \in {"1", "2"}

IntOf(h) == CASE h = "1" -> 1 [] h = "2" -> 2

\* The Retry-After header of a 429: absent, delay seconds, or an HTTP-date.
RetryAfterChoices == {None, Some("1"), Some("Wed, 21 Oct 2015 07:28:00 GMT")}

PagesServed(me) == Len(SelectSeq(me.getLog, LAMBDA g : g.status = 200))

\* One record of a daily endpoint's "data": its id and its other fields.
RecordData(id, fields) == [id |-> id, fields |-> fields]

\* The "data" a daily endpoint may serve to a sync: two records, two records
\* with one id (the second a later version of the first), or one record.
SyncData ==
  {<<RecordData("r1", "a"), RecordData("r2", "a")>>,
   <<RecordData("r1", "a"), RecordData("r1", "b")>>,
   <<RecordData("r1", "b")>>}

\* The "data" of the API's page number k: the key is absent, or the page
\* holds its two records (record ids are unique across pages).
DataChoices(k) == {None, Some(<<2 * k - 1, 2 * k>>)}

\* The next_token that the API's page number k carries.
NextTokenOf(k) == CASE k = 1 -> "n1" [] k = 2 -> "n2" [] OTHER -> "n3"

\* The JSON bodies the API may send for the endpoint.  The API's chain of pages
\* is finite: its page number MaxPages carries no next_token.
Bodies(me) ==
  IF me.endpoint = "personal_info"
    THEN {[id |-> i, data |-> None, next_token |-> None] : i \in {None, Some("u1")}}
  ELSE IF me.endpoint = "sync"
    THEN {[id |-> None, data |-> Some(d), next_token |-> None] : d \in SyncData}
    ELSE {[id |-> None, data |-> d, next_token |-> n] :
            d \in DataChoices(PagesServed(me) + 1),
            n \in IF PagesServed(me) + 1 >= MaxPages
                    THEN {None, Some("")}
                    ELSE {None, Some(""), Some(NextTokenOf(PagesServed(me) + 1))}}

\* What one GET can come back with; status 0 stands for no HTTP response at
\* all (requests.exceptions.ConnectionError).  The paginated endpoint is
\* given fewer failures, the retry policy being the same for every endpoint;
\* the endpoints of a sync serve one page of records, or fail with 401 or 500.
Responses(me) ==
  {[status |-> 200, retry_after |-> None, body |-> Some(b)] : b \in Bodies(me)}
  \cup {[status |-> 429, retry_after |-> ra, body |-> None] :
          ra \in IF me.endpoint = "personal_info" THEN RetryAfterChoices
                 ELSE IF me.endpoint \in {"sync", "dated"} THEN {}
                 ELSE {Some("1")}}
  \cup {[status |-> st, retry_after |-> None, body |-> None] :
          st \in IF me.endpoint = "personal_info" THEN {401, 500, 503, 0}
                 ELSE {401, 500}}

\* The log of the call's GETs: what was sent, what came back, and how many
\* refresh calls and sleeps the call had made by then.
Logged(me, r) ==
  [me EXCEPT !.getLog = Append(@, [status |-> r.status, bearer |-> me.headers[1],
                                   next_token |-> me.next_token, body |-> r.body,
                                   params |-> me.params,
                                   retry_after |-> r.retry_after,
                                   refreshCalls |-> me.refreshCalls,
                                   sleeps |-> Len(me.sleepLog)])]

Sleep(me, d) == [me EXCEPT !.sleepLog = Append(@, d)]

wait_time_double(attempt) == 2 * attempt

\* wait_time = 2 ** attempt
wait_time(attempt) == 2 ^ attempt

retry_after_backoff(me, r) ==
  (IF r.retry_after = None THEN DefaultRetryAfter ELSE IntOf(r.retry_after[1]))
  + 2 ^ me.attempt

\* retry_after = int(response.headers.get("Retry-After", 60))
retry_after(me, r) ==
  IF r.retry_after = None THEN DefaultRetryAfter ELSE IntOf(r.retry_after[1])

handle_response_no_refresh(me, r) ==
  CASE r.status = 0 ->
         [me |-> Raise(me, "ConnectionError"), slept |-> 0]
    [] r.status = 429 /\ r.retry_after # None
          /\ ~IsIntLiteral(r.retry_after[1]) ->
         [me |-> Raise(me, "ValueError"), slept |-> 0]
    [] r.status = 429 ->
         [me |-> [Sleep(me, retry_after(me, r)) EXCEPT !.attempt = @ + 1],
          slept |-> retry_after(me, r)]
    [] r.status = 200 ->
         [me |-> Return(me, r.body), slept |-> 0]
    [] OTHER ->
         IF me.attempt = me.max_retries - 1
           THEN [me |-> [Raise(me, "HTTPError") EXCEPT !.excStatus = r.status],
                 slept |-> 0]
           ELSE [me |-> [Sleep(me, wait_time(me.attempt)) EXCEPT !.attempt = @ + 1],
                 slept |-> wait_time(me.attempt)]

handle_response_refresh_on_error(me, r) ==
  CASE r.status = 0 ->
         [me |-> Raise(me, "ConnectionError"), slept |-> 0]
    [] r.status = 429 /\ r.retry_after # None
          /\ ~IsIntLiteral(r.retry_after[1]) ->
         [me |-> Raise(me, "ValueError"), slept |-> 0]
    [] r.status = 429 ->
         [me |-> [Sleep(me, retry_after(me, r)) EXCEPT !.attempt = @ + 1],
          slept |-> retry_after(me, r)]
    [] r.status = 200 ->
         [me |-> Return(me, r.body), slept |-> 0]
    [] OTHER ->
         [me |-> CallGetToken(me, "mr_401"), slept |-> 0]

\* The body of the for loop for response r: the process after it, and the
\* seconds it slept.
handle_response(me, r) ==
  CASE r.status = 0 ->
         [me |-> Raise(me, "ConnectionError"), slept |-> 0]
    [] r.status = 429 /\ r.retry_after # None
          /\ ~IsIntLiteral(r.retry_after[1]) ->
         [me |-> Raise(me, "ValueError"), slept |-> 0]
    [] r.status = 429 ->
         [me |-> [Sleep(me, retry_after(me, r)) EXCEPT !.attempt = @ + 1],
          slept |-> retry_after(me, r)]
    [] r.status = 200 ->
         [me |-> Return(me, r.body), slept |-> 0]
    [] r.status = 401 ->
         [me |-> CallGetToken(me, "mr_401"), slept |-> 0]
    [] OTHER ->
         IF me.attempt = me.max_retries - 1
           THEN [me |-> [Raise(me, "HTTPError") EXCEPT !.excStatus = r.status],
                 slept |-> 0]
           ELSE [me |-> [Sleep(me, wait_time(me.attempt)) EXCEPT !.attempt = @ + 1],
                 slept |-> wait_time(me.attempt)]

GetHeaders_Ret_unchecked(p) ==
  LET me == proc[p]
  IN /\ p \in procs
     /\ me.pc = "hdr_ret"
     /\ Put(p, [me EXCEPT !.headers = IF me.ret = None THEN Some(AT(0)) ELSE me.ret,
                          !.attempt = 0, !.pc = "mr_loop"])
     /\ UNCHANGED <<store, saved, now, issued, validRT, submitted, procs, env, records>>

\* _get_headers returns: no token raises, else the Authorization header is
\* built once and the loop starts.
GetHeaders_Ret(p) ==
  LET me == proc[p]
  IN /\ p \in procs
     /\ me.pc = "hdr_ret"
     /\ Put(p, IF me.ret = None
                 THEN Raise(me, "NoValidToken")
                 ELSE [me EXCEPT !.headers = me.ret, !.attempt = 0, !.pc = "mr_loop"])
     /\ UNCHANGED <<store, saved, now, issued, validRT, submitted, procs, env, records>>

MakeRequest_Attempt_one_more(p) ==
  LET me == proc[p]
  IN /\ p \in procs
     /\ me.pc = "mr_loop"
     /\ IF me.attempt > me.max_retries
          THEN /\ Put(p, Raise(me, "FailedToComplete"))
               /\ now' = now
          ELSE \E r \in Responses(me) :
                 LET h == handle_response(Logged(me, r), r)
                 IN /\ Put(p, h.me)
                    /\ now' = now + h.slept
     /\ UNCHANGED <<store, saved, issued, validRT, submitted, procs, env, records>>

\* for attempt in range(max_retries): one GET and the handling of its response;
\* after the loop, raise Exception("Failed to complete request ...").
MakeRequest_Attempt(p) ==
  LET me == proc[p]
  IN /\ p \in procs
     /\ me.pc = "mr_loop"
     /\ IF me.attempt >= me.max_retries
          THEN /\ Put(p, Raise(me, "FailedToComplete"))
               /\ now' = now
          ELSE \E r \in Responses(me) :
                 LET h == handle_response(Logged(me, r), r)
                 IN /\ Put(p, h.me)
                    /\ now' = now + h.slept
     /\ UNCHANGED <<store, saved, issued, validRT, submitted, procs, env, records>>

MakeRequest_401_retry(p) ==
  LET me == proc[p]
  IN /\ p \in procs
     /\ me.pc = "mr_401"
     /\ Put(p, IF me.ret # None
                 THEN [me EXCEPT !.token = me.ret, !.pc = "mr_refresh"]
                 ELSE [me EXCEPT !.pc = "mr_loop", !.attempt = @ + 1])
     /\ UNCHANGED <<store, saved, now, issued, validRT, submitted, procs, env, records>>

\* except HTTPError, status 401: token = self.oauth.get_token(user_id);
\* if token: refresh, else raise
MakeRequest_401(p) ==
  LET me == proc[p]
  IN /\ p \in procs
     /\ me.pc = "mr_401"
     /\ Put(p, IF me.ret # None
                 THEN [me EXCEPT !.token = me.ret, !.pc = "mr_refresh"]
                 ELSE [Raise(me, "HTTPError") EXCEPT !.excStatus = 401])
     /\ UNCHANGED <<store, saved, now, issued, validRT, submitted, procs, env, records>>

MakeRequest_Refresh_retry(p) ==
  LET me == proc[p]
      rt == me.token[1].refresh_token
  IN /\ p \in procs
     /\ me.pc = "mr_refresh"
     /\ \E o \in refresh_access_token(rt) :
          /\ ProviderRefreshed(rt, o)
          /\ Put(p, IF o.ok
                      THEN [me EXCEPT !.pc = "mr_save", !.new_token_data = o.token,
                                      !.refreshCalls = @ + 1, !.refreshOk = @ + 1]
                      ELSE [me EXCEPT !.pc = "mr_loop", !.attempt = @ + 1,
                                      !.refreshCalls = @ + 1])
     /\ UNCHANGED <<store, saved, now, procs, env, records>>

\* new_token_data = self.oauth.refresh_access_token(token.refresh_token)
MakeRequest_Refresh(p) ==
  LET me == proc[p]
      rt == me.token[1].refresh_token
  IN /\ p \in procs
     /\ me.pc = "mr_refresh"
     /\ \E o \in refresh_access_token(rt) :
          /\ ProviderRefreshed(rt, o)
          /\ Put(p, IF o.ok
                      THEN [me EXCEPT !.pc = "mr_save", !.new_token_data = o.token,
                                      !.refreshCalls = @ + 1, !.refreshOk = @ + 1]
                      ELSE Raise(Rejected([me EXCEPT !.refreshCalls = @ + 1], rt),
                                 "RefreshError"))
     /\ UNCHANGED <<store, saved, now, procs, env, records>>

MakeRequest_Save_skipped(p) ==
  LET me == proc[p]
  IN /\ p \in procs
     /\ me.pc = "mr_save"
     /\ Put(p, [me EXCEPT !.pc = "mr_loop", !.saveCalls = @ + 1,
                          !.attempt = @ + 1])
     /\ UNCHANGED <<store, saved, now, issued, validRT, submitted, procs, env, records>>

\* self.oauth.save_token(self.user_id, new_token_data); continue
MakeRequest_Save(p) ==
  LET me == proc[p]
  IN /\ p \in procs
     /\ me.pc = "mr_save"
     /\ \E c \in get_db_outcomes :
          IF c = "commit"
            THEN /\ store' = save_token(store, me.uid, me.new_token_data[1], now)
                 /\ Saved(me.uid, me.new_token_data[1])
                 /\ Put(p, [me EXCEPT !.pc = "mr_loop", !.saveCalls = @ + 1,
                                      !.attempt = @ + 1])
            ELSE /\ UNCHANGED <<store, saved>>
                 /\ Put(p, get_db_reraise(me))
     /\ UNCHANGED <<now, issued, validRT, submitted, procs, env, records>>

\* get_personal_info(): a caller makes one request for the account.
MakeRequest_Call(p) ==
  /\ CanStart(p)
  /\ \E uid \in Accounts, max_retries \in 0..DefaultMaxRetries :
       Put(p, CallMakeRequest(Begin(proc[p], "request", uid),
                              "personal_info", None, max_retries, <<>>))
  /\ UNCHANGED <<store, saved, now, issued, validRT, submitted, procs, env, records>>

\* ----------------------------------------- OuraClient._fetch_paginated_data
FetchPaginated_Call(p) ==
  /\ CanStart(p)
  /\ \E uid \in Accounts :
       Put(p, CallMakeRequest(Begin(proc[p], "fetch_paginated", uid),
                              "daily", None, DefaultMaxRetries, <<"fp_ret">>))
  /\ UNCHANGED <<store, saved, now, issued, validRT, submitted, procs, env, records>>

\* `if start_date:` -- None and the empty string are falsy
truthy(v) == v # None /\ v # Some("")

\* params = {**kwargs}, plus start_date and end_date when they are truthy
build_params(args) ==
  [start_date |-> IF truthy(args.start_date) THEN args.start_date ELSE None,
   end_date |-> IF truthy(args.end_date) THEN args.end_date ELSE None,
   extra |-> args.extra]

\* The arguments of a paginated fetch: the dates and one extra parameter.
ArgChoices ==
  {[start_date |-> sd, end_date |-> Some("2024-01-31"), extra |-> x] :
     sd \in {None, Some(""), Some("2024-01-01")}, x \in {None, Some("x")}}

\* get_daily_activity(start_date, end_date) and the like: a paginated fetch
\* with dates.
FetchPaginated_CallWith(p) ==
  /\ CanStart(p)
  /\ \E uid \in Accounts, args \in ArgChoices :
       Put(p, CallMakeRequest([Begin(proc[p], "fetch_paginated", uid) EXCEPT
                                 !.args = args, !.params = build_params(args)],
                              "dated", None, DefaultMaxRetries, <<"fp_ret">>))
  /\ UNCHANGED <<store, saved, now, issued, validRT, submitted, procs, env, records>>

\* `not next_token`: None and the empty string are falsy
falsy(next_token) == next_token = None \/ next_token = Some("")

\* all_data.extend(data)
extend_front(all_data, data) == data \o all_data

extend(all_data, data) == all_data \o data

FetchPaginated_Ret_stale(p) ==
  LET me == proc[p]
      response == me.ret[1]
      got == [me EXCEPT !.all_data = extend(@, Get(response.data, <<>>))]
  IN /\ p \in procs
     /\ me.pc = "fp_ret"
     /\ Put(p, IF falsy(response.next_token)
                 THEN Return(got, Some(got.all_data))
                 ELSE CallMakeRequest(got, me.endpoint, me.next_token,
                                      DefaultMaxRetries, <<"fp_ret">>))
     /\ UNCHANGED <<store, saved, now, issued, validRT, submitted, procs, env, records>>

\* all_data.extend(response.get("data", [])); follow next_token or return
FetchPaginated_Ret(p) ==
  LET me == proc[p]
      response == me.ret[1]
      got == [me EXCEPT !.all_data = extend(@, Get(response.data, <<>>))]
  IN /\ p \in procs
     /\ me.pc = "fp_ret"
     /\ Put(p, IF falsy(response.next_token)
                 THEN Return(got, Some(got.all_data))
                 ELSE CallMakeRequest(got, me.endpoint, response.next_token,
                                      DefaultMaxRetries, <<"fp_ret">>))
     /\ UNCHANGED <<store, saved, now, issued, validRT, submitted, procs, env, records>>

\* ----------------------------------------------------- scripts/sync_data.py
\* What --types can name: the data types above, or anything else.
DataTypeNames == methods_map \cup {"heartrate"}

\* The requested lists: none, one or two data types.
RequestedLists ==
  UNION {[1..n -> DataTypeNames] : n \in {0, 1, 2}}

\* sync_daily_data(client, user_id, start_date, end_date, data_types), for the
\* user_id of the stored token.
Sync_Call(p) ==
  /\ CanStart(p)
  /\ \E data_types \in RequestedLists :
       Put(p, [Begin(proc[p], "sync_daily_data", "temp") EXCEPT
                 !.pc = "sync_loop", !.data_types = data_types])
  /\ UNCHANGED <<store, saved, now, issued, validRT, submitted, procs, env, records>>

\* for data_type in data_types: skip a type without a fetch method, else
\* data_list = method(start_date, end_date), a paginated fetch.
Sync_Loop(p) ==
  LET me == proc[p]
      data_type == me.data_types[me.dt_index]
  IN /\ p \in procs
     /\ me.pc = "sync_loop"
     /\ Put(p, IF me.dt_index > Len(me.data_types)
                 THEN Return(me, None)
                 ELSE IF data_type \notin methods_map
                   THEN [me EXCEPT !.dt_index = @ + 1]
                   ELSE CallMakeRequest(
                          [me EXCEPT !.attempted = Append(@, data_type),
                                     !.stack = <<"sync_persist">>],
                          "sync", None, DefaultMaxRetries, <<"fp_ret">>))
     /\ UNCHANGED <<store, saved, now, issued, validRT, submitted, procs, env, records>>

\* map_daily_*(data, user_id): the row of one record.
mapper(record_data, user_id) ==
  [id |-> record_data.id, user_id |-> user_id, fields |-> record_data.fields]

\* sessionmaker(autocommit=False, autoflush=False, bind=engine)
autoflush == FALSE

\* A session on one table: the rows its transaction sees (the committed rows
\* and what it changed or flushed), its pending objects, and whether a flush
\* has failed.
session_on(table) == [rows |-> table, new |-> <<>>, error |-> FALSE]

\* The flush: the pending objects are inserted; two rows with one primary
\* key are an IntegrityError.
flush(session) ==
  LET ids == {session.new[i].id : i \in DOMAIN session.new}
  IN IF session.error \/ session.new = <<>>
       THEN session
     ELSE IF \/ \E i, j \in DOMAIN session.new :
                  i # j /\ session.new[i].id = session.new[j].id
             \/ ids \cap DOMAIN session.rows # {}
       THEN [session EXCEPT !.error = TRUE]
       ELSE [rows |-> [id \in DOMAIN session.rows \cup ids |->
                        IF id \in ids
                          THEN session.new[CHOOSE i \in DOMAIN session.new :
                                             session.new[i].id = id]
                          ELSE session.rows[id]],
             new |-> <<>>, error |-> FALSE]

\* for record_data in data_list: the row of that id is looked up by a query
\* (which flushes first only under autoflush); a row found has every mapped
\* attribute set, else the mapped object is added to the session.
RECURSIVE upsert_records(_, _, _)
upsert_records(session, data_list, user_id) ==
  IF data_list = <<>>
    THEN session
    ELSE LET record_data == Head(data_list)
             s == IF autoflush THEN flush(session) ELSE session
             existing == record_data.id \in DOMAIN s.rows
             mapped == mapper(record_data, user_id)
         IN IF s.error
              THEN s
              ELSE upsert_records(
                     IF existing
                       THEN [s EXCEPT !.rows =
                               [id \in DOMAIN @ |->
                                  IF id = record_data.id THEN mapped ELSE @[id]]]
                       ELSE [s EXCEPT !.new = Append(@, mapped)],
                     Tail(data_list), user_id)

persist_insert_only(table, data_list, user_id) ==
  LET s == flush([session_on(table) EXCEPT
                    !.new = [k \in DOMAIN data_list |->
                               mapper(data_list[k], user_id)]])
  IN [ok |-> ~s.error, rows |-> IF s.error THEN table ELSE s.rows]

\* The get_db block of sync_daily_data: the loop, then db.commit(); an
\* exception rolls the transaction back.
persist(table, data_list, user_id) ==
  LET s == flush(upsert_records(session_on(table), data_list, user_id))
  IN [ok |-> ~s.error, rows |-> IF s.error THEN table ELSE s.rows]

\* The records are mapped and written in one get_db block, then dumped to a
\* JSON file: done, or an exception (mapper, database, file) that the same
\* try block catches.  The log keeps what was persisted and what it left.
Sync_Persist(p) ==
  LET me == proc[p]
      data_type == me.data_types[me.dt_index]
      data_list == me.ret[1]
      r == persist(records[data_type], data_list, me.uid)
      log(ok, after) ==
        [me EXCEPT !.persisted =
           Append(@, [data_type |-> data_type, data_list |-> data_list,
                      ok |-> ok, before |-> records[data_type],
                      after |-> after])]
  IN /\ p \in procs
     /\ me.pc = "sync_persist"
     /\ \/ /\ r.ok
           /\ records' = [records EXCEPT ![data_type] = r.rows]
           /\ \E dumped \in BOOLEAN :
                Put(p, IF dumped
                         THEN NextDataType(log(TRUE, r.rows),
                                           Append(me.outcomes, "synced"))
                         ELSE Raise(log(TRUE, r.rows), "Exception"))
        \/ /\ ~r.ok
           /\ records' = records
           /\ Put(p, Raise(log(FALSE, records[data_type]), "IntegrityError"))
        \/ /\ records' = records
           /\ Put(p, Raise(me, "Exception"))
     /\ UNCHANGED <<store, saved, now, issued, validRT, submitted, procs, env>>

\* ------------------------------------------------- scripts/authenticate.py
\* oauthlib's check in fetch_token: `if state and params.get("state") != state`
state_matches(session_state, response_state) ==
  session_state = "" \/ response_state = session_state

\* authorization_response = f"{redirect_uri}?code={auth_code}&state={state}":
\* the state parsed back out of the URL the method builds itself.
authorization_response_state(state) == state

\* The token endpoint's outcomes for an authorization code: a token response,
\* or a rejection whose body names the error (the code, or the client's
\* credentials).
exchange_code(auth_code) ==
  {[ok |-> FALSE, token |-> None,
    error |-> IF auth_code = "good" THEN "invalid_client" ELSE "invalid_grant"]}
  \cup
  (IF auth_code = "good" /\ issued < MaxGrants
     THEN {[ok |-> TRUE, token |-> Some(TokenResponse(issued + 1, e)),
            error |-> ""] : e \in ExpiresInChoices}
     ELSE {})

exchange_error_message_bare(e) == <<"Failed to exchange code for token", "">>

\* Exception(f"Failed to exchange code for token: {str(e)}")
exchange_error_message(e) == <<"Failed to exchange code for token", e>>

\* start_auth_flow(): a state is generated, the browser is redirected back
\* with a code and a state (echoed), and the user types the code only.
Auth_Start(p) ==
  /\ CanStart(p)
  /\ \E state \in States, echoed \in States, auth_code \in Codes :
       LET me == [Begin(proc[p], "authenticate", "temp") EXCEPT
                    !.state = state, !.echoed = echoed, !.auth_code = auth_code]
       IN Put(p, IF auth_code = ""
                   THEN Return(me, None)
                   ELSE [me EXCEPT !.pc = "auth_exchange"])
  /\ UNCHANGED <<store, saved, now, issued, validRT, submitted, procs, env, records>>

\* exchange_code_for_token(auth_code, state)
Auth_Exchange(p) ==
  LET me == proc[p]
  IN /\ p \in procs
     /\ me.pc = "auth_exchange"
     /\ IF ~state_matches(me.state, authorization_response_state(me.state))
          THEN /\ Put(p, Raise([me EXCEPT !.exc_message =
                                     exchange_error_message("mismatching_state")],
                                "TokenExchangeError"))
               /\ UNCHANGED <<issued, validRT>>
          ELSE \E o \in exchange_code(me.auth_code) :
                 /\ issued' = IF o.ok THEN issued + 1 ELSE issued
                 /\ validRT' = IF o.ok THEN validRT \cup {RT(issued + 1)} ELSE validRT
                 /\ Put(p, IF o.ok
                             THEN [me EXCEPT !.pc = "auth_save_temp",
                                             !.token_data = o.token,
                                             !.tokenCalls = @ + 1]
                             ELSE Raise([me EXCEPT !.tokenCalls = @ + 1,
                                                   !.provider_error = o.error,
                                                   !.exc_message =
                                                     exchange_error_message(o.error)],
                                        "TokenExchangeError"))
     /\ UNCHANGED <<store, saved, now, submitted, procs, env, records>>

\* oauth.save_token("temp", token_data); OuraClient("temp").get_personal_info()
Auth_SaveTemp(p) ==
  LET me == proc[p]
  IN /\ p \in procs
     /\ me.pc = "auth_save_temp"
     /\ \E c \in get_db_outcomes :
          IF c = "commit"
            THEN /\ store' = save_token(store, "temp", me.token_data[1], now)
                 /\ Saved("temp", me.token_data[1])
                 /\ Put(p, CallMakeRequest([me EXCEPT !.saveCalls = @ + 1,
                                                      !.auth_code = "",
                                                      !.state = "", !.echoed = ""],
                                           "personal_info",
                                           None, DefaultMaxRetries, <<"auth_got_info">>))
            ELSE /\ UNCHANGED <<store, saved>>
                 /\ Put(p, get_db_reraise(me))
     /\ UNCHANGED <<now, issued, validRT, submitted, procs, env, records>>

\* user_id = personal_info.get("id"); oauth.save_token(user_id, token_data)
Auth_SaveUser(p) ==
  LET me == proc[p]
      user_id == me.ret[1].id
  IN /\ p \in procs
     /\ me.pc = "auth_got_info"
     /\ IF user_id = None
          THEN /\ Put(p, Return(me, None))
               /\ UNCHANGED <<store, saved>>
          ELSE \E c \in get_db_outcomes :
                 IF c = "commit"
                   THEN /\ store' = save_token(store, user_id[1], me.token_data[1], now)
                        /\ Saved(user_id[1], me.token_data[1])
                        /\ Put(p, Return([me EXCEPT !.saveCalls = @ + 1,
                                                    !.uid = user_id[1]],
                                         Some(0)))
                   ELSE /\ UNCHANGED <<store, saved>>
                        /\ Put(p, get_db_reraise(me))
     /\ UNCHANGED <<now, issued, validRT, submitted, procs, env, records>>

\* The steps of the calls, whoever started them.
Steps(p) ==
  \/ GetToken_Query(p)
  \/ GetToken_Refresh(p)
  \/ GetToken_Save(p)
  \/ GetToken_Requery(p)
  \/ GetAccessToken_Ret(p)
  \/ GetHeaders_Ret(p)
  \/ MakeRequest_Attempt(p)
  \/ MakeRequest_401(p)
  \/ MakeRequest_Refresh(p)
  \/ MakeRequest_Save(p)

\* The authentication script and the OAuth manager, from an empty table.
Next ==
  \/ Tick
  \/ \E p \in Procs : Auth_Start(p)
  \/ \E p \in Procs : Auth_Exchange(p)
  \/ \E p \in Procs : Auth_SaveTemp(p)
  \/ \E p \in Procs : Auth_SaveUser(p)
  \/ \E p \in Procs : GetAccessToken_Call(p)
  \/ \E p \in Procs : Steps(p)

Spec == Init /\ [][Next]_vars

\* The table after a run of the authentication script, at time 0, in which
\* the token was saved for "temp" and personal_info carried no id: "temp"
\* holds grant 1 and "u1" has no row.  ops counts the calls made so far.
AuthenticatedIn(ops, deployment) ==
  /\ \E e \in ExpiresInChoices :
       /\ store = save_token(<<>>, "temp", TokenResponse(1, e), 0)
       /\ saved = [a \in Accounts |->
                    IF a = "temp"
                      THEN Some([token_data |-> TokenResponse(1, e), at |-> 0])
                      ELSE None]
  /\ now = 0
  /\ issued = 1
  /\ validRT = {RT(1)}
  /\ submitted = {}
  /\ procs = {1}
  /\ proc = [p \in Procs |-> [IdleProc EXCEPT !.ops = ops]]
  /\ env = deployment
  /\ records = NoRecords

Authenticated(ops) == AuthenticatedIn(ops, UtcAware)

InitClient == Authenticated(1)

\* The API client on an authenticated account.
NextClient ==
  \/ Tick
  \/ \E p \in Procs : GetAccessToken_Call(p)
  \/ \E p \in Procs : MakeRequest_Call(p)
  \/ \E p \in Procs : Steps(p)

SpecClient == InitClient /\ [][NextClient]_vars

\* A process that has started a call keeps executing it: the interpreter runs
\* the call's next statement, and every HTTP exchange and sleep ends.
SpecClientLive == SpecClient /\ WF_vars(\E p \in Procs : Steps(p))

NextPages ==
  \/ Tick
  \/ \E p \in Procs : FetchPaginated_Call(p)
  \/ \E p \in Procs : FetchPaginated_Ret(p)
  \/ \E p \in Procs : Steps(p)

\* One paginated fetch: the process is before its last call.
InitPages == Authenticated(MaxOps - 1)

SpecPages == InitPages /\ [][NextPages]_vars

\* Paginated fetches with dates and an extra parameter.
NextParams ==
  \/ Tick
  \/ \E p \in Procs : FetchPaginated_CallWith(p)
  \/ \E p \in Procs : FetchPaginated_Ret(p)
  \/ \E p \in Procs : Steps(p)

SpecParams == InitPages /\ [][NextParams]_vars

\* The local timezone offsets of a process, in the clock's unit.
Offsets == {-1, 0, 1}

\* The OAuth manager on an authenticated account, over the deployments: a
\* database that returns aware or naive datetimes, and a local timezone.
\* The table with the expires_at of its rows NULL (the column is nullable):
\* rows written by other means than save_token.
NullExpiry(st) == [u \in DOMAIN st |-> [st[u] EXCEPT !.expires_at = None]]

InitTz ==
  /\ \E e \in ExpiresInChoices, null \in BOOLEAN :
       LET st == save_token(<<>>, "temp", TokenResponse(1, e), 0)
       IN /\ store = IF null THEN NullExpiry(st) ELSE st
          /\ saved = [a \in Accounts |->
                       IF a = "temp" /\ ~null
                         THEN Some([token_data |-> TokenResponse(1, e), at |-> 0])
                         ELSE None]
  /\ now = 0
  /\ issued = 1
  /\ validRT = {RT(1)}
  /\ submitted = {}
  /\ procs = {1}
  /\ proc = [p \in Procs |-> IdleProc]
  /\ \E naive \in BOOLEAN, offset \in Offsets :
       env = [naive_db |-> naive, utcoffset |-> offset, db_faulty |-> FALSE,
              orm_session |-> FALSE]
  /\ records = NoRecords

NextTz ==
  \/ Tick
  \/ \E p \in Procs : GetAccessToken_Call(p)
  \/ \E p \in Procs : GetToken_Query(p)
  \/ \E p \in Procs : GetToken_Refresh(p)
  \/ \E p \in Procs : GetToken_Save(p)
  \/ \E p \in Procs : GetToken_Requery(p)
  \/ \E p \in Procs : GetAccessToken_Ret(p)

SpecTz == InitTz /\ [][NextTz]_vars

\* The API client and the OAuth manager on an authenticated account whose
\* database may fail a write.
InitDb == AuthenticatedIn(1, [UtcAware EXCEPT !.db_faulty = TRUE])

\* The token manager with the ORM session of get_token modelled.
InitOrm == AuthenticatedIn(0, [UtcAware EXCEPT !.orm_session = TRUE])

SpecOrm == InitOrm /\ [][NextTz]_vars


SpecDb == InitDb /\ [][NextClient]_vars

\* The sync orchestrator on an authenticated account: one run of
\* sync_daily_data.
NextSync ==
  \/ \E p \in Procs : Sync_Call(p)
  \/ \E p \in Procs : Sync_Loop(p)
  \/ \E p \in Procs : Sync_Persist(p)
  \/ \E p \in Procs : FetchPaginated_Ret(p)
  \/ \E p \in Procs : Steps(p)

InitSync == Authenticated(MaxOps - 1)

SpecSync == InitSync /\ [][NextSync]_vars

\* ================================================================== claims
Done(p, op) == p \in procs /\ proc[p].pc = "idle" /\ proc[p].op = op

Statuses(log) == [i \in 1..Len(log) |-> log[i].status]

ClientOps == {"get_access_token", "request", "fetch_paginated"}

\* C1: in a call of the OAuth manager or the API client, when the last refresh
\* call succeeded and its save is done (every refresh call of the call so far
\* was followed by its save), the stored refresh_token of the account is the
\* one that refresh response carried, and it was never sent to the provider in
\* a refresh request.
C1_RefreshTokenRotated ==
  \A p \in procs :
    LET me == proc[p]
    IN (me.op \in ClientOps /\ me.saveCalls >= 1 /\ me.saveCalls = me.refreshCalls)
       => /\ me.uid \in DOMAIN store
          /\ store[me.uid].refresh_token = me.new_token_data[1].refresh_token[1]
          /\ store[me.uid].refresh_token \notin submitted

\* A request whose 401 handler refreshed and saved, the stored token being
\* the new one.
C1_Witness ==
  \E p \in procs :
    /\ proc[p].op = "request" /\ proc[p].pc = "mr_loop"
    /\ proc[p].expiries = 0 /\ proc[p].saveCalls = 1
    /\ store[proc[p].uid].refresh_token = proc[p].new_token_data[1].refresh_token[1]
    /\ submitted # {}

\* C2: a get_access_token call that finds the record expired makes exactly one
\* refresh call, and when that refresh answered, the persisted refresh_token
\* after the call is the one of the refresh response.
C2_ExpiredRefreshesOnce ==
  \A p \in procs :
    LET me == proc[p]
    IN (Done(p, "get_access_token") /\ me.expiries >= 1)
       => /\ me.refreshCalls = 1
          /\ me.refreshOk = 1 =>
               store[me.uid].refresh_token = me.new_token_data[1].refresh_token[1]

C2_Witness ==
  \E p \in procs :
    /\ Done(p, "get_access_token") /\ proc[p].expiries = 1
    /\ proc[p].refreshCalls = 1 /\ proc[p].refreshOk = 1
    /\ store[proc[p].uid].refresh_token = proc[p].new_token_data[1].refresh_token[1]
    /\ proc[p].chkRec[1].refresh_token # store[proc[p].uid].refresh_token

\* The expires_at that save computed for the save sv.
SavedExpiresAt(sv) == sv.at + Get(sv.token_data.expires_in, DefaultExpiresIn)

C4_RefreshIffExpired ==
  \A p \in procs :
    LET me == proc[p]
    IN (Done(p, "get_access_token") /\ me.chkRec # None
          /\ me.chkRec[1].expires_at # None)
       => (me.refreshCalls >= 1 <=> me.chkNow >= me.chkRec[1].expires_at[1])

\* The call made at the very instant T, which refreshed.
C4_Witness ==
  \E p \in procs :
    /\ Done(p, "get_access_token") /\ proc[p].chkRec # None
    /\ proc[p].chkRec[1].expires_at = Some(proc[p].chkNow)
    /\ proc[p].refreshCalls = 1

\* C5 (as claimed): a 429 never counts against max_retries, so a request that
\* has received 429 responses only has not given up.
C5_Original ==
  \A p \in procs :
    ~ /\ Done(p, "request")
      /\ Len(proc[p].getLog) >= 1
      /\ \A i \in 1..Len(proc[p].getLog) : proc[p].getLog[i].status = 429

\* C6 (as claimed): a request that received 401 and then 200 returns the 200
\* payload after exactly one refresh call and exactly one save.
C6_Original ==
  \A p \in procs :
    LET me == proc[p]
    IN (Done(p, "request") /\ Statuses(me.getLog) = <<401, 200>>)
       => /\ me.exc = "none" /\ me.ret = me.getLog[2].body
          /\ me.refreshCalls = 1 /\ me.saveCalls = 1

\* C6 (amended): the same, for a request during which get_token never found
\* the stored token expired.
C6_OneRefreshCycle ==
  \A p \in procs :
    LET me == proc[p]
    IN (Done(p, "request") /\ Statuses(me.getLog) = <<401, 200>> /\ me.expiries = 0)
       => /\ me.exc = "none" /\ me.ret = me.getLog[2].body
          /\ me.refreshCalls = 1 /\ me.saveCalls = 1

C6_Witness ==
  \E p \in procs :
    /\ Done(p, "request") /\ Statuses(proc[p].getLog) = <<401, 200>>
    /\ proc[p].expiries = 0 /\ proc[p].refreshCalls = 1 /\ proc[p].saveCalls = 1
    /\ proc[p].ret = proc[p].getLog[2].body

\* The pages of a fetch: the 200 responses, in the order received.
PagesOf(log) == SelectSeq(log, LAMBDA g : g.status = 200)

RECURSIVE ConcatData(_)
ConcatData(pages) ==
  IF pages = <<>> THEN <<>>
  ELSE Get(Head(pages).body[1].data, <<>>) \o ConcatData(Tail(pages))

\* C7: a paginated fetch that returns gives the concatenation of the pages'
\* data arrays in response order (an absent data key adding nothing), made one
\* request per page, and its last page is the first one whose next_token is
\* absent or empty.
C7_PagesConcatenated ==
  \A p \in procs :
    LET me == proc[p]
        pages == PagesOf(me.getLog)
    IN (Done(p, "fetch_paginated") /\ me.exc = "none")
       => /\ me.ret = Some(ConcatData(pages))
          /\ me.calls = Len(pages)
          /\ \A i \in 1..Len(pages) :
               falsy(pages[i].body[1].next_token) <=> i = Len(pages)

C7_Witness ==
  \E p \in procs :
    /\ Done(p, "fetch_paginated") /\ proc[p].exc = "none"
    /\ Len(PagesOf(proc[p].getLog)) = 2
    /\ proc[p].ret = Some(<<1, 2, 3, 4>>)

\* C8 (as claimed): when the state the provider echoed differs from the
\* generated one, the token endpoint is never called.
C8_Original ==
  \A p \in procs :
    (proc[p].op = "authenticate" /\ proc[p].echoed # proc[p].state)
      => proc[p].tokenCalls = 0

\* C9: a get_access_token call that finds the record expired and whose refresh
\* fails returns None, raises nothing and leaves the record as it was read.
C9_FailedRefreshKeepsRecord ==
  \A p \in procs :
    LET me == proc[p]
    IN (Done(p, "get_access_token") /\ me.expiries >= 1 /\ me.refreshOk = 0)
       => /\ me.ret = None /\ me.exc = "none"
          /\ me.uid \in DOMAIN store /\ store[me.uid] = me.chkRec[1]
          /\ me.saveCalls = 0

C9_Witness ==
  \E p \in procs :
    /\ Done(p, "get_access_token") /\ proc[p].expiries = 1
    /\ proc[p].refreshCalls = 1 /\ proc[p].refreshOk = 0
    /\ proc[p].ret = None /\ store[proc[p].uid] = proc[p].chkRec[1]

\* The authentication state of an account, read off the program's state: a
\* refresh cycle of the account is under way (between the decision to refresh
\* and the end of its save), or else the account has a Credential Record or
\* has none.
Refreshing(a) ==
  \E p \in procs :
    proc[p].uid = a /\ proc[p].pc \in {"gt_refresh", "gt_save", "mr_refresh", "mr_save"}

AuthState(a) ==
  IF Refreshing(a) THEN "REFRESHING"
  ELSE IF a \in DOMAIN store THEN "AUTHENTICATED" ELSE "UNAUTHENTICATED"

ExpiryDetected(a) ==
  a \in DOMAIN store /\ store[a].expires_at # None /\ now >= store[a].expires_at[1]

SavingRefresh(a) ==
  \E p \in procs : proc[p].uid = a /\ proc[p].pc \in {"gt_save", "mr_save"}

CallingRefresh(a) ==
  \E p \in procs : proc[p].uid = a /\ proc[p].pc \in {"gt_refresh", "mr_refresh"}

OtherErrors == {500, 503}

\* The sleeps of n failed attempts: 2^0, 2^1, ... between consecutive GETs.
BackoffSleeps(n) == [i \in 1..(n - 1) |-> 2 ^ (i - 1)]

\* C11: a request all of whose GETs returned an HTTP error status other than
\* 401 and 429 made exactly max_retries GETs, slept 2^attempt seconds between
\* consecutive GETs and not after the last, and failed with the HTTP error of
\* the last GET.
C11_BackoffThenFail ==
  \A p \in procs :
    LET me == proc[p]
    IN (Done(p, "request") /\ Len(me.getLog) >= 1
          /\ \A i \in 1..Len(me.getLog) : me.getLog[i].status \in OtherErrors)
       => /\ Len(me.getLog) = me.max_retries
          /\ me.sleepLog = BackoffSleeps(me.max_retries)
          /\ me.exc = "HTTPError"
          /\ me.excStatus = me.getLog[Len(me.getLog)].status

\* Three attempts: sleeps of 1 and 2 seconds, and the error of the third GET.
C11_Witness ==
  \E p \in procs :
    /\ Done(p, "request") /\ proc[p].max_retries = 3
    /\ Statuses(proc[p].getLog) = <<500, 500, 503>>
    /\ proc[p].sleepLog = <<1, 2>>
    /\ proc[p].exc = "HTTPError" /\ proc[p].excStatus = 503

\* C12 (as claimed): a network failure of a GET is backed off and retried like
\* any other error, so a request ends on a GET without response only when that
\* GET was its last attempt.
C12_Original ==
  \A p \in procs :
    LET me == proc[p]
    IN (Done(p, "request") /\ Len(me.getLog) >= 1
          /\ me.getLog[Len(me.getLog)].status = 0)
       => Len(me.getLog) = me.max_retries

\* C13: when get_access_token gave _get_headers no token (the record is
\* absent, or expired with a failed refresh), the next step of the request
\* ends it with the "no valid access token" error, no GET sent and no sleep
\* made.
C13_NoTokenFailsFast ==
  [][\A p \in procs :
       (proc[p].op = "request" /\ proc[p].pc = "hdr_ret" /\ proc[p].ret = None
          /\ proc'[p] # proc[p])
       => /\ proc'[p].pc = "idle" /\ proc'[p].exc = "NoValidToken"
          /\ proc'[p].getLog = <<>> /\ proc'[p].sleepLog = <<>>
          /\ now' = now]_vars

\* The request of an account whose record had expired and whose refresh failed.
C13_Witness ==
  \E p \in procs :
    /\ Done(p, "request") /\ proc[p].exc = "NoValidToken"
    /\ proc[p].expiries = 1 /\ proc[p].refreshCalls = 1 /\ proc[p].refreshOk = 0
    /\ proc[p].getLog = <<>> /\ proc[p].sleepLog = <<>>

\* C14: a get_access_token call for an account that has no Credential Record
\* (none was ever saved for it) returns None, raises nothing, calls neither
\* refresh nor save, and leaves the account without a record.
C14_AbsentRecordGivesNone ==
  \A p \in procs :
    LET me == proc[p]
    IN (Done(p, "get_access_token") /\ me.chkSaved = None)
       => /\ me.ret = None /\ me.exc = "none"
          /\ me.refreshCalls = 0 /\ me.saveCalls = 0
          /\ me.uid \notin DOMAIN store

\* The call for the account without a record, while another account has one.
C14_Witness ==
  \E p \in procs :
    /\ Done(p, "get_access_token") /\ proc[p].chkSaved = None
    /\ proc[p].uid \notin DOMAIN store /\ store # <<>>
    /\ proc[p].ret = None /\ proc[p].refreshCalls = 0

\* The last GET of a call.
LastGet(me) == me.getLog[Len(me.getLog)]

\* C15 (as claimed): a request that a 401 ended for want of a token called no
\* refresh after that 401, sent no further GET and slept no more.
C15_Original ==
  \A p \in procs :
    LET me == proc[p]
    IN (Done(p, "request") /\ me.exc = "HTTPError" /\ me.excStatus = 401)
       => /\ LastGet(me).status = 401
          /\ Len(me.sleepLog) = LastGet(me).sleeps
          /\ me.refreshCalls = LastGet(me).refreshCalls

\* C15 (amended): once get_token has given the 401 handler no token, the
\* request's next step ends it with the 401 error: the handler calls no refresh
\* and no save, no GET is sent and no sleep is made.  (get_token itself may
\* have made a refresh call, which failed, if it found the record expired.)
C15_NoTokenAt401 ==
  [][\A p \in procs :
       (proc[p].op = "request" /\ proc[p].pc = "mr_401" /\ proc[p].ret = None
          /\ proc'[p] # proc[p])
       => /\ proc'[p].pc = "idle"
          /\ proc'[p].exc = "HTTPError" /\ proc'[p].excStatus = 401
          /\ proc'[p].refreshCalls = proc[p].refreshCalls
          /\ proc'[p].saveCalls = proc[p].saveCalls
          /\ proc'[p].getLog = proc[p].getLog
          /\ proc'[p].sleepLog = proc[p].sleepLog
          /\ now' = now /\ store' = store]_vars

\* A request ended by a 401 with no token: its last GET is the 401.
C15_Witness ==
  \E p \in procs :
    /\ Done(p, "request") /\ proc[p].exc = "HTTPError" /\ proc[p].excStatus = 401
    /\ LastGet(proc[p]).status = 401
    /\ Len(proc[p].sleepLog) = LastGet(proc[p]).sleeps

\* C16: the table has one row per user_id (the column is unique), and every
\* save keeps it so by updating in place: a step never removes or replaces the
\* row of an account (its id stays), adds at most one row, and only for an
\* account that had none, with an id no other row has.
C16_UpsertInPlace ==
  [][/\ \A a \in DOMAIN store : a \in DOMAIN store' /\ store'[a].id = store[a].id
     /\ Cardinality(DOMAIN store') <= Cardinality(DOMAIN store) + 1
     /\ \A a, b \in DOMAIN store' : a # b => store'[a].id # store'[b].id]_vars

\* Both accounts have their row, and the first one was saved again since it
\* was created: it carries a later grant under its first id.
C16_Witness ==
  /\ DOMAIN store = {"temp", "u1"}
  /\ store["temp"].id = 1 /\ store["u1"].id = 2
  /\ store["temp"].access_token # AT(1)

\* C17 (as claimed): a stored expires_at = T without timezone information is
\* compared as a UTC instant, whatever the local timezone of the process: the
\* call refreshes if and only if the UTC time of the call is >= T.
C17_Original ==
  \A p \in procs :
    LET me == proc[p]
    IN (Done(p, "get_access_token") /\ env.naive_db /\ me.chkRec # None
          /\ me.chkRec[1].expires_at # None)
       => (me.expiries >= 1 <=> me.chkNow >= me.chkRec[1].expires_at[1])

\* C18: the expires_at of every record is the UTC time of its last save plus
\* the expires_in of the token response saved, or plus 86400 seconds when the
\* response had no expires_in, whether that save created or updated the record.
C18_ExpiresAtComputed ==
  \A a \in Accounts :
    saved[a] # None
      => /\ a \in DOMAIN store
         /\ store[a].expires_at =
              Some(saved[a][1].at
                   + (IF saved[a][1].token_data.expires_in = None
                        THEN 86400 ELSE saved[a][1].token_data.expires_in[1]))

\* A record updated one second after its creation by a response without
\* expires_in.
C18_Witness ==
  \E a \in DOMAIN store :
    /\ saved[a] # None /\ saved[a][1].at = 1
    /\ saved[a][1].token_data.expires_in = None
    /\ store[a].access_token = AT(2) /\ store[a].id = 1
    /\ store[a].expires_at = Some(86401)

\* C19: no step deletes a Credential Record: an account that has a record has
\* one after every step, failed refreshes and failed requests included.
C19_NeverDeleted ==
  [][\A a \in Accounts : a \in DOMAIN store => a \in DOMAIN store']_vars

\* After a call that ended on a failed refresh, the account has its record.
C19_Witness ==
  \E p \in procs :
    /\ proc[p].pc = "idle" /\ proc[p].op \in {"get_access_token", "authenticate"}
    /\ proc[p].refreshCalls >= 1 /\ proc[p].refreshOk < proc[p].refreshCalls
    /\ proc[p].uid \in DOMAIN store

C21_Original ==
  \A p \in procs :
    LET me == proc[p]
    IN (me.pc = "idle" /\ me.op \in ClientOps /\ me.dbErrors >= 1)
       => /\ me.exc = "SQLAlchemyError"
          /\ saved[me.uid] = me.chkSaved

\* The data types of a requested list that have a fetch method, in list order.
Fetchable(data_types) == SelectSeq(data_types, LAMBDA d : d \in methods_map)

\* C22: a run of sync_daily_data attempts the data types of the requested list
\* that have a fetch method in list order, each occurrence once: while it runs
\* the attempts are the fetchable types among those passed so far, with one
\* outcome logged per finished attempt, and when it ends every one of them was
\* attempted, whatever the outcomes of the earlier ones.
C22_SyncIsolation ==
  \A p \in procs :
    LET me == proc[p]
        passed == SubSeq(me.data_types, 1, me.dt_index - 1)
    IN me.op = "sync_daily_data"
       => /\ me.pc = "sync_loop"
               => /\ me.attempted = Fetchable(passed)
                  /\ Len(me.outcomes) = Len(me.attempted)
          /\ me.pc = "idle"
               => /\ me.attempted = Fetchable(me.data_types)
                  /\ Len(me.outcomes) = Len(me.attempted)
                  /\ me.exc = "none"

\* The first data type failed and the second was synced all the same.
C22_Witness ==
  \E p \in procs :
    /\ Done(p, "sync_daily_data")
    /\ proc[p].data_types = <<"daily_activity", "daily_sleep">>
    /\ proc[p].attempted = <<"daily_activity", "daily_sleep">>
    /\ proc[p].outcomes = <<"failed", "synced">>

\* C23: a paginated fetch never delivers a partial result: a call that ends
\* delivers either the records of all its pages, every page request having
\* succeeded, or an exception and none of the records it had accumulated.
C23_NoPartialResult ==
  \A p \in procs :
    LET me == proc[p]
    IN Done(p, "fetch_paginated")
       => IF me.exc = "none"
            THEN /\ me.ret = Some(me.all_data)
                 /\ me.getLog # <<>>
                 /\ me.getLog[Len(me.getLog)].status = 200
            ELSE me.ret = None

C23_Witness ==
  \E p \in procs :
    /\ Done(p, "fetch_paginated")
    /\ proc[p].all_data = <<1, 2>>
    /\ Len(PagesOf(proc[p].getLog)) = 1
    /\ proc[p].exc # "none"
    /\ proc[p].ret = None

InitRace ==
  /\ \E e \in ExpiresInChoices :
       /\ store = save_token(<<>>, "temp", TokenResponse(1, e), 0)
       /\ saved = [a \in Accounts |->
                    IF a = "temp"
                      THEN Some([token_data |-> TokenResponse(1, e), at |-> 0])
                      ELSE None]
  /\ now = 0
  /\ issued = 1
  /\ validRT = {RT(1)}
  /\ submitted = {}
  /\ procs \in {{1}, {1, 2}}
  /\ proc = [p \in Procs |-> IdleProc]
  /\ env = UtcAware
  /\ records = NoRecords

\* Both processes ask for the account's access token.
NextRace ==
  \/ Tick
  \/ \E p \in Procs : GetAccessToken_Call(p)
  \/ \E p \in Procs : GetToken_Query(p)
  \/ \E p \in Procs : GetToken_Refresh(p)
  \/ \E p \in Procs : GetToken_Save(p)
  \/ \E p \in Procs : GetToken_Requery(p)
  \/ \E p \in Procs : GetAccessToken_Ret(p)

SpecRace == InitRace /\ [][NextRace]_vars

\* Every stored refresh token is one the provider still accepts.
StoredTokensAccepted ==
  \A a \in DOMAIN store : store[a].refresh_token \in validRT

Quiescent == \A p \in procs : proc[p].pc = "idle"

\* C25: with a single process on the account, no refresh is ever made with a
\* refresh token the provider has retired, and between calls the record holds
\* a refresh token the provider accepts; the race that breaks this needs the
\* second process (C25_Witness).
C25_SingleProcessNoRace ==
  Cardinality(procs) = 1
    => /\ \A p \in procs : proc[p].rejected = 0
       /\ Quiescent => StoredTokensAccepted

\* Two processes read the same stored refresh token and both called refresh:
\* the first was answered, the second was rejected for a retired token.
C25_Witness ==
  /\ procs = {1, 2}
  /\ proc[1].chkRec # None /\ proc[1].chkRec = proc[2].chkRec
  /\ proc[1].refreshCalls = 1 /\ proc[1].refreshOk = 1
  /\ proc[2].refreshCalls = 1 /\ proc[2].rejected = 1
  /\ Done(2, "get_access_token") /\ proc[2].ret = None

\* C26 (as claimed), for the states a single process leaves between its calls:
\* whatever happened during a refresh, a persistence failure of its save
\* included, the stored refresh_token is one the provider still accepts.
C26_Original == Quiescent => StoredTokensAccepted

\* The Retry-After header of the logged GET g gives a number of seconds, or
\* is absent.
GivesSeconds(g) == g.retry_after = None \/ IsIntLiteral(g.retry_after[1])

\* C27: after each 429 whose Retry-After header is absent or gives seconds,
\* the request made exactly one sleep, of the header's seconds or of 60
\* without the header; the next GET, if any, follows that one sleep; and a
\* request that ended after the wait ended for want of attempts, not with an
\* error raised for the 429.
C27_RetryAfterWait ==
  \A p \in procs :
    LET me == proc[p]
    IN \A i \in 1..Len(me.getLog) :
         LET g == me.getLog[i]
         IN (g.status = 429 /\ GivesSeconds(g))
            => /\ Len(me.sleepLog) > g.sleeps
               /\ me.sleepLog[g.sleeps + 1] =
                    (IF g.retry_after = None THEN DefaultRetryAfter
                                             ELSE IntOf(g.retry_after[1]))
               /\ i < Len(me.getLog) => me.getLog[i + 1].sleeps = g.sleeps + 1
               /\ i = Len(me.getLog)
                    => /\ Len(me.sleepLog) = g.sleeps + 1
                       /\ me.pc = "idle"
                            => (me.exc = "FailedToComplete"
                                  /\ me.attempt = me.max_retries)

\* A 429 without the header, a 429 with Retry-After: 1, then the 200:
\* sleeps of 60 and 1 second.
C27_Witness ==
  \E p \in procs :
    /\ Done(p, "request") /\ proc[p].exc = "none"
    /\ Len(proc[p].getLog) = 3
    /\ proc[p].getLog[1].status = 429 /\ proc[p].getLog[1].retry_after = None
    /\ proc[p].getLog[2].status = 429 /\ proc[p].getLog[2].retry_after = Some("1")
    /\ proc[p].getLog[3].status = 200
    /\ proc[p].sleepLog = <<60, 1>>

\* C27 (as claimed): after each 429, whatever its Retry-After header, the
\* request has waited: the header's seconds when it gives seconds, 60 when
\* it is absent.
C27_Original ==
  \A p \in procs :
    LET me == proc[p]
    IN \A i \in 1..Len(me.getLog) :
         LET g == me.getLog[i]
         IN g.status = 429
            => /\ Len(me.sleepLog) > g.sleeps
               /\ g.retry_after = None
                    => me.sleepLog[g.sleeps + 1] = DefaultRetryAfter
               /\ (g.retry_after # None /\ IsIntLiteral(g.retry_after[1]))
                    => me.sleepLog[g.sleeps + 1] = IntOf(g.retry_after[1])

\* The request of process p failed because its attempts were used up: the
\* loop ran out, or the last attempt's error was re-raised.
AttemptsUsedUp(p) ==
  LET me == proc[p]
  IN /\ Done(p, "request")
     /\ Len(me.getLog) >= 1
     /\ \/ me.exc = "FailedToComplete"
        \/ /\ me.exc = "HTTPError"
           /\ me.attempt = me.max_retries - 1
           /\ LastGet(me).status \in OtherErrors

\* C28 (as claimed): a request that failed because its attempts were used up
\* raised the HTTP error of its last GET, whatever responses used them up.
C28_Original ==
  \A p \in procs :
    AttemptsUsedUp(p)
      => /\ proc[p].exc = "HTTPError"
         /\ proc[p].excStatus = LastGet(proc[p]).status

\* C29 (as claimed): a GET that retries after a 401, the 401 handler having
\* refreshed and saved in between, carries as bearer the access_token that
\* the save persisted.
C29_Original ==
  \A p \in procs :
    LET me == proc[p]
        n == Len(me.getLog)
    IN (n >= 2 /\ me.getLog[n - 1].status = 401
          /\ me.refreshCalls = me.getLog[n].refreshCalls)
       => /\ me.getLog[n].bearer = me.new_token_data[1].access_token
          /\ me.getLog[n].bearer = store[me.uid].access_token

\* C30 (as claimed): a get_access_token call that found the record expired
\* and whose refresh and save succeeded returns the access_token of the
\* refresh response, which is the one now stored.
C30_Original ==
  \A p \in procs :
    LET me == proc[p]
    IN (Done(p, "get_access_token") /\ me.expiries >= 1
          /\ me.refreshOk = 1 /\ me.saveCalls = 1)
       => /\ me.exc = "none"
          /\ me.ret = Some(me.new_token_data[1].access_token)
          /\ me.ret = Some(store[me.uid].access_token)

\* C31: whatever the responses, a request call never issues more than
\* max_retries GETs, a call with max_retries = 0 that has ended issued no GET
\* and raised, and every request call that has started ends (returns or
\* raises).
C31_BoundedAttempts ==
  /\ [](\A p \in procs :
          LET me == proc[p]
          IN me.op = "request"
             => /\ Len(me.getLog) <= me.max_retries
                /\ (me.pc = "idle" /\ me.max_retries = 0)
                     => (me.getLog = <<>> /\ me.exc # "none"))
  /\ \A p \in Procs :
       (proc[p].op = "request" /\ proc[p].pc # "idle") ~> (proc[p].pc = "idle")

\* A request with max_retries = 3 whose three GETs were answered 429, 401
\* (refreshed and saved) and 500, and which raised.
C31_Witness ==
  \E p \in procs :
    /\ Done(p, "request") /\ proc[p].max_retries = 3
    /\ Len(proc[p].getLog) = 3
    /\ proc[p].getLog[1].status = 429
    /\ proc[p].getLog[2].status = 401
    /\ proc[p].getLog[3].status = 500
    /\ proc[p].exc = "HTTPError"

\* C32 (as claimed): a request in which a refresh made after a 401 failed
\* ended with that refresh failure, with no GET and no sleep after the 401.
C32_Original ==
  \A p \in procs :
    LET me == proc[p]
    IN (Done(p, "request") /\ me.getLog # <<>>
          /\ LastGet(me).status = 401
          /\ me.refreshCalls > LastGet(me).refreshCalls
          /\ me.refreshCalls > me.refreshOk)
       => /\ me.exc = "RefreshError"
          /\ Len(me.sleepLog) = LastGet(me).sleeps

\* C32 (amended): when the refresh that the 401 handler itself calls fails,
\* that step ends the request with the refresh failure; when the refresh that
\* get_token makes inside the handler (record found expired) fails, get_token
\* gives the handler no token and the handler's next step ends the request
\* with the 401 error.  Neither step, nor the two together, sends a GET,
\* sleeps or changes a record.
C32_RefreshFailureAt401 ==
  [][\A p \in procs :
       LET me == proc[p]
           after == proc'[p]
           quiet == /\ after.getLog = me.getLog
                    /\ after.sleepLog = me.sleepLog
                    /\ after.saveCalls = me.saveCalls
                    /\ now' = now /\ store' = store /\ saved' = saved
       IN (me.op = "request" /\ after # me)
          => /\ (me.pc = "mr_refresh" /\ after.refreshOk = me.refreshOk)
                  => /\ after.pc = "idle" /\ after.exc = "RefreshError"
                     /\ after.refreshCalls = me.refreshCalls + 1
                     /\ quiet
             /\ (me.pc = "gt_refresh" /\ me.stack # <<>>
                   /\ Head(me.stack) = "mr_401"
                   /\ after.refreshOk = me.refreshOk)
                  => /\ after.pc = "mr_401" /\ after.ret = None
                     /\ after.exc = "none"
                     /\ quiet
             /\ (me.pc = "mr_401" /\ me.ret = None)
                  => /\ after.pc = "idle"
                     /\ after.exc = "HTTPError" /\ after.excStatus = 401
                     /\ after.refreshCalls = me.refreshCalls
                     /\ quiet]_vars

\* A request whose GET got 401 and whose handler's refresh failed.
C32_Witness ==
  \E p \in procs :
    /\ Done(p, "request") /\ proc[p].exc = "RefreshError"
    /\ LastGet(proc[p]).status = 401
    /\ proc[p].refreshCalls = LastGet(proc[p]).refreshCalls + 1
    /\ proc[p].refreshOk = 0 /\ proc[p].saveCalls = 0
    /\ Len(proc[p].sleepLog) = LastGet(proc[p]).sleeps
    /\ saved[proc[p].uid][1].at = 0

\* C33 (as claimed): a process never has more than one database session
\* open at a time.
C33_Original ==
  \A p \in procs : proc[p].peakSessions <= 1

\* No GET of the call has been answered 401.
No401(me) == \A i \in 1..Len(me.getLog) : me.getLog[i].status # 401

\* C34: a step of a request or of a paginated fetch, in a call that so far
\* found no expired token and received no 401, changes no field of any
\* credential record and adds or removes none, whatever the other responses
\* (200, 429, 5xx, connection error) were.
C34_RecordsUntouched ==
  [][\A p \in procs :
       (proc'[p] # proc[p]
          /\ proc'[p].op \in {"request", "fetch_paginated"}
          /\ proc'[p].expiries = 0
          /\ No401(proc'[p]))
       => (store' = store /\ saved' = saved)]_vars

\* A paginated fetch that met a 429, a 500 and two pages, with no record
\* written since the authentication.
C34_Witness ==
  \E p \in procs :
    LET me == proc[p]
    IN /\ Done(p, "fetch_paginated") /\ me.exc = "none"
       /\ me.expiries = 0 /\ No401(me)
       /\ \E i, j \in 1..Len(me.getLog) :
            me.getLog[i].status = 429 /\ me.getLog[j].status = 500
       /\ Len(PagesOf(me.getLog)) = 2
       /\ saved[me.uid] # None /\ saved[me.uid][1].at = 0

\* The next_token of the last page received before the GET number i of the
\* log: None when no page was received yet.
RECURSIVE PrecedingToken(_, _)
PrecedingToken(log, i) ==
  IF i <= 1 THEN None
  ELSE IF log[i - 1].status = 200 THEN log[i - 1].body[1].next_token
  ELSE PrecedingToken(log, i - 1)

\* C35: in a paginated fetch, every GET before the first page carries no
\* next_token, every later GET carries the next_token of the page received
\* just before it, and every GET carries the call's start and end dates (when
\* given and not empty) and its extra parameter, unchanged.
C35_NextTokenChain ==
  \A p \in procs :
    LET me == proc[p]
    IN me.op = "fetch_paginated"
       => \A i \in 1..Len(me.getLog) :
            /\ me.getLog[i].next_token = PrecedingToken(me.getLog, i)
            /\ me.getLog[i].params.start_date =
                 (IF me.args.start_date = Some("") THEN None
                                                   ELSE me.args.start_date)
            /\ me.getLog[i].params.end_date = me.args.end_date
            /\ me.getLog[i].params.extra = me.args.extra

\* Two pages with dates and an extra parameter, the second page asked for
\* twice (a 500 first) with the first page's next_token.
C35_Witness ==
  \E p \in procs :
    LET me == proc[p]
    IN /\ Done(p, "fetch_paginated") /\ me.exc = "none"
       /\ me.args.start_date = Some("2024-01-01") /\ me.args.extra = Some("x")
       /\ Len(me.getLog) = 3
       /\ me.getLog[1].status = 200 /\ me.getLog[1].next_token = None
       /\ me.getLog[1].body[1].next_token = Some("n1")
       /\ me.getLog[2].status = 500 /\ me.getLog[2].next_token = Some("n1")
       /\ me.getLog[3].status = 200 /\ me.getLog[3].next_token = Some("n1")
       /\ me.getLog[3].params = me.getLog[1].params

\* C36 (as claimed): no two credential records hold the same refresh_token.
C36_Original ==
  \A a, b \in DOMAIN store :
    a # b => store[a].refresh_token # store[b].refresh_token

\* ------------------------------------------------------------------- C37
\* Two consecutive persists, by one run, of one data type and one list.
SameListTwice(log, i) ==
  /\ i \in 1..(Len(log) - 1)
  /\ log[i].data_type = log[i + 1].data_type
  /\ log[i].data_list = log[i + 1].data_list

ListIds(data_list) == {data_list[k].id : k \in DOMAIN data_list}

\* The id occurs twice in the list and has no row in the table.
NewIdTwice(table, data_list) ==
  \E j, k \in DOMAIN data_list :
    j # k /\ data_list[j].id = data_list[k].id /\ data_list[j].id \notin DOMAIN table

\* C37 (as claimed): for every list of fetched records, the sync of a data
\* type run twice on the same list leaves the stored rows that one run left,
\* with a row for every record id of the list.
C37_Original ==
  \A p \in procs :
    LET log == proc[p].persisted
    IN \A i \in DOMAIN log :
         SameListTwice(log, i) =>
           /\ log[i + 1].after = log[i].after
           /\ ListIds(log[i].data_list) \subseteq DOMAIN log[i + 1].after

\* C37 (what holds): when no id that is new to the table occurs twice in the
\* list, both runs commit, the second leaves the rows the first left, and
\* every record id of the list has its row, the mapping of the last record
\* of that id.
C37_UpsertOfDistinctIds ==
  \A p \in procs :
    LET log == proc[p].persisted
    IN \A i \in DOMAIN log :
         (SameListTwice(log, i) /\ ~NewIdTwice(log[i].before, log[i].data_list)) =>
           /\ log[i].ok /\ log[i + 1].ok
           /\ log[i + 1].after = log[i].after
           /\ \A k \in DOMAIN log[i].data_list :
                LET id == log[i].data_list[k].id
                IN /\ id \in DOMAIN log[i + 1].after
                   /\ (\A m \in DOMAIN log[i].data_list :
                         m > k => log[i].data_list[m].id # id)
                        => log[i + 1].after[id]
                             = mapper(log[i].data_list[k], proc[p].uid)

\* The same list of two records was persisted twice and both rows are stored.
C37_Witness ==
  \E p \in procs :
    LET log == proc[p].persisted
    IN /\ Len(log) = 2
       /\ SameListTwice(log, 1)
       /\ Len(log[1].data_list) = 2
       /\ log[1].before = <<>>
       /\ DOMAIN log[2].after = {"r1", "r2"}
       /\ DOMAIN records[log[1].data_type] = {"r1", "r2"}

====
